---- MODULE Spec2Model ----
(***************************************************************************)
(* Model of bot_cupons_final.py: the sent-offers cache (ENVIADOS_CACHE),   *)
(* the verification round (verificar_e_enviar_ofertas), the search         *)
(* (buscar_produtos), the Telegram send (enviar_produto_telegram) and the  *)
(* scheduling loop (loop_principal).                                       *)
(*                                                                         *)
(* One state of the model is one point where the asyncio event loop may    *)
(* switch coroutine: every action is the synchronous code between two      *)
(* awaits.  Time is counted in minutes (Tick); a send or a pause lasts any *)
(* number of minutes, because the code puts no bound on the number of      *)
(* products of a round while the model bounds the list.                    *)
(***************************************************************************)
EXTENDS Integers, Sequences, FiniteSets, Bags, TLC

\* ---------------------------------------------------------------- bounds
NumLinks == 2          \* distinct affiliate links the sources may show
MaxEmFila == 2         \* products fetched and not yet sent, over all rounds
MaxTarefas == 2        \* rounds that may exist at once (asyncio tasks)
MAX_CACHE_SIZE == 1    \* int(get_env_variable("MAX_CACHE_SIZE", default=200))
SCHEDULE_INTERVAL_MINUTES == 1  \* int(get_env_variable(..., default=10))

\* ------------------------------------------------------------- constants
HORARIO_INICIO_ENVIO == 7
HORARIO_FIM_ENVIO == 23

Links == 1..NumLinks
\* URLS_FONTE, in the dict's order: 1 = divulgadorinteligente, 2 = promohub
URLS_FONTE == <<"divulgadorinteligente", "promohub">>
Fontes == 1..Len(URLS_FONTE)

\* datetime.hour.  The code reads the hour only to compare it with the two
\* limits of the window, so the clock keeps the hours on both sides of each
\* limit; an hour in between behaves as the kept hour before it, where the
\* clock may stay for any number of minutes.
Horas == {HORARIO_INICIO_ENVIO - 1, HORARIO_INICIO_ENVIO,
          HORARIO_FIM_ENVIO - 1, HORARIO_FIM_ENVIO}

RECURSIVE ProximaHora(_)
ProximaHora(h) ==
    LET n == (h + 1) % 24
    IN IF n \in Horas THEN n ELSE ProximaHora(n)

\* Fault variant: the window's end compared with <= instead of <.
DentroAteOFim(h) == HORARIO_INICIO_ENVIO <= h /\ h <= HORARIO_FIM_ENVIO

\* if not (HORARIO_INICIO_ENVIO <= agora_brasilia.hour < HORARIO_FIM_ENVIO)
DentroDoHorario(h) == HORARIO_INICIO_ENVIO <= h /\ h < HORARIO_FIM_ENVIO

\* ------------------------------------------------- what a source answers
Falhas == {"timeout", "erro_http", "excecao"}

ListasAte(n) == UNION {[1..k -> Links] : k \in 0..n}

Listas == ListasAte(MaxEmFila)

\* A source answers with a page (status "ok" and the offers its extractor
\* finds, in page order) or fails: requests.get times out, raise_for_status
\* raises, or the parsing raises anything else.
RespostasAte(n) ==
    [status : {"ok"}, ofertas : ListasAte(n)] \cup [status : Falhas, ofertas : {<<>>}]

Respostas == RespostasAte(MaxEmFila)

VARIABLES
    ENVIADOS_CACHE,  \* the global set of links already sent
    principal,       \* loop_principal: "primeira" (awaiting the first round) or "loop"
    rodadas,         \* the bag of rounds that exist: [pc, fila, espera] each
    faltam,          \* minutes until the schedule job's next_run
    hora,            \* datetime.now(FUSO_HORARIO_BRASILIA).hour
    enviados,        \* history: the links sent successfully so far
    desde,           \* history: minutes since a round was last launched (saturates)
    inicio,          \* history: what the round start did, when the last step was one
    resp,            \* search specification: what each source answers
    busca            \* search specification: what buscar_produtos returned

vars ==
    <<ENVIADOS_CACHE, principal, rodadas, faltam, hora, enviados, desde, inicio,
      resp, busca>>

\* -------------------------------------------------------- buscar_produtos
\* extrair_dados_*: "if link_afiliado in ENVIADOS_CACHE: continue"
ExtrairDados(lista, cache) ==
    LET Novo(l) == l \notin cache IN SelectSeq(lista, Novo)

\* Fault variant: the loop body without its last clause, "except Exception".
CapturadaSemGenerica(falha) == falha \in {"timeout", "erro_http"}

\* The except clauses of buscar_produtos' loop body: Timeout,
\* RequestException (raise_for_status) and Exception (anything else).
Capturada(falha) == falha \in {"timeout", "erro_http", "excecao"}

\* The for loop over URLS_FONTE from source i on: acc is
\* produtos_encontrados_total, vistas the sources requests.get was called for.
RECURSIVE BuscarDe(_, _, _, _, _)
BuscarDe(i, rs, cache, acc, vistas) ==
    IF i > Len(URLS_FONTE)
    THEN [produtos  |-> ExtrairDados(acc, cache),
          acessadas |-> vistas,
          escapou   |-> FALSE,
          cache     |-> cache]
    ELSE IF rs[i].status \in Falhas
         THEN IF Capturada(rs[i].status)
              THEN BuscarDe(i + 1, rs, cache, acc, vistas \cup {i})
              ELSE [produtos  |-> <<>>,
                    acessadas |-> vistas \cup {i},
                    escapou   |-> TRUE,
                    cache     |-> cache]
         ELSE BuscarDe(i + 1, rs, cache,
                       acc \o ExtrairDados(rs[i].ofertas, cache), vistas \cup {i})

BuscarProdutos(rs, cache) == BuscarDe(1, rs, cache, <<>>, {})

\* No round started in the last step.
SemInicio == [acessadas |-> {}, fim |-> "nenhum"]

NenhumaBusca ==
    [produtos |-> <<>>, acessadas |-> {}, escapou |-> FALSE, cache |-> {}]

\* ------------------------------------------- verificar_e_enviar_ofertas
\* Fault variant: the link is added and the cache never trimmed.
CachesSemCorte(cache, link) == {cache \cup {link}}

\* ENVIADOS_CACHE.add(link), then the trim: list(set) has no defined order,
\* so cache_list[len(cache_list)-MAX_CACHE_SIZE:] keeps any MAX_CACHE_SIZE
\* of the links.
CachesApos(cache, link) ==
    LET c == cache \cup {link} IN
    IF Cardinality(c) > MAX_CACHE_SIZE
    THEN {s \in SUBSET c : Cardinality(s) = MAX_CACHE_SIZE}
    ELSE {c}

\* A round: where it is, the products it still has to send (the head is
\* the one being sent), and the argument of the asyncio.sleep it is in.
Rodada(p, f, e) == [pc |-> p, fila |-> f, espera |-> e]

\* A task that was created and has not run yet.
Criada == Rodada("criada", <<>>, 0)

Existentes == BagToSet(rodadas)

\* The bag with round x replaced by round y, or taken out.
Troca(x, y) == (rodadas (-) SetToBag({x})) (+) SetToBag({y})

Retira(x) == rodadas (-) SetToBag({x})

EmAndamento(x) == x.pc \in {"enviando", "fallback", "pausa"}

\* loop_principal continues past "await verificar_e_enviar_ofertas()" when
\* the first round returns, and dies when it raises.
PrincipalApos(fim) ==
    IF principal = "primeira"
    THEN (IF fim = "erro" THEN "morto" ELSE "loop")
    ELSE principal

\* Products waiting in the rounds' lists.
RECURSIVE EmFilaDe(_)
EmFilaDe(S) ==
    IF S = {} THEN 0
    ELSE LET x == CHOOSE y \in S : TRUE
         IN CopiesIn(x, rodadas) * Len(x.fila) + EmFilaDe(S \ {x})

EmFila == EmFilaDe(Existentes)

\* "Fora do horário de envio": the round returns at once.
ForaDoHorario(x) ==
    /\ rodadas' = Retira(x)
    /\ principal' = PrincipalApos("fora")
    /\ inicio' = [acessadas |-> {}, fim |-> "fora"]
    /\ UNCHANGED <<ENVIADOS_CACHE, enviados>>

\* buscar_produtos, then "Nenhuma nova oferta" and return, or the first
\* call of enviar_produto_telegram, up to its await.
BuscarEEnviar(x) ==
    \E rs \in [Fontes -> RespostasAte(MaxEmFila - EmFila)] :
        LET b == BuscarProdutos(rs, ENVIADOS_CACHE)
            fim == IF b.escapou THEN "erro"
                   ELSE IF b.produtos = <<>> THEN "vazia" ELSE "enviando"
        IN /\ Len(b.produtos) <= MaxEmFila - EmFila
           /\ inicio' = [acessadas |-> b.acessadas, fim |-> fim]
           /\ ENVIADOS_CACHE' = b.cache
           /\ rodadas' = IF fim = "enviando"
                         THEN Troca(x, Rodada("enviando", b.produtos, 0))
                         ELSE Retira(x)
           /\ principal' = IF fim = "enviando" THEN principal ELSE PrincipalApos(fim)
           /\ UNCHANGED enviados

\* The round runs from its first line to its first await (or its return).
IniciarRodada(x) ==
    /\ x.pc = "criada"
    /\ IF DentroDoHorario(hora) THEN BuscarEEnviar(x) ELSE ForaDoHorario(x)
    /\ UNCHANGED <<faltam, hora, desde, resp, busca>>

\* enviar_produto_telegram returned True (send_photo, send_message or the
\* fallback send_message succeeded): cache the link, trim, sleep 3.
EnvioOk(x) ==
    /\ x.pc \in {"enviando", "fallback"}
    /\ \E c \in CachesApos(ENVIADOS_CACHE, Head(x.fila)) : ENVIADOS_CACHE' = c
    /\ enviados' = enviados \cup {Head(x.fila)}
    /\ rodadas' = Troca(x, Rodada("pausa", x.fila, 3))
    /\ inicio' = SemInicio
    /\ UNCHANGED <<principal, faltam, hora, desde, resp, busca>>

\* Fault variant: the link is cached whatever enviar_produto_telegram returned.
CacheAposFalhaGuarda(cache, link) == cache \cup {link}

\* The else branch of "if sucesso": ENVIADOS_CACHE is not touched.
CacheAposFalha(cache, link) == cache

\* enviar_produto_telegram returned False: log, sleep 5.
EnvioFalha(x) ==
    /\ x.pc \in {"enviando", "fallback"}
    /\ ENVIADOS_CACHE' = CacheAposFalha(ENVIADOS_CACHE, Head(x.fila))
    /\ rodadas' = Troca(x, Rodada("pausa", x.fila, 5))
    /\ inicio' = SemInicio
    /\ UNCHANGED <<principal, faltam, hora, enviados, desde, resp, busca>>

\* send_photo raised "wrong file identifier/HTTP URL specified" for a product
\* with an image: the fallback send_message is awaited.
EnvioFallback(x) ==
    /\ x.pc = "enviando"
    /\ rodadas' = Troca(x, Rodada("fallback", x.fila, 0))
    /\ inicio' = SemInicio
    /\ UNCHANGED <<ENVIADOS_CACHE, principal, faltam, hora, enviados, desde,
                   resp, busca>>

\* asyncio.sleep returned: the for loop goes to the next product, or ends.
FimDaPausa(x) ==
    /\ x.pc = "pausa"
    /\ IF Tail(x.fila) # <<>>
       THEN /\ rodadas' = Troca(x, Rodada("enviando", Tail(x.fila), 0))
            /\ UNCHANGED principal
       ELSE /\ rodadas' = Retira(x)
            /\ principal' = PrincipalApos("concluida")
    /\ inicio' = SemInicio
    /\ UNCHANGED <<ENVIADOS_CACHE, faltam, hora, enviados, desde, resp, busca>>

\* ---------------------------------------------------------- loop_principal
\* Fault variant: the job runs at every poll of the loop.
PendenteSempre == TRUE

\* schedule.run_pending(): the job is due when its next_run has come.
Pendente == faltam = 0

\* The while loop's run_pending finds the job due: the lambda creates the
\* task and the job is rescheduled SCHEDULE_INTERVAL_MINUTES from now.
Agendar ==
    /\ principal = "loop"
    /\ Pendente
    /\ BagCardinality(rodadas) < MaxTarefas
    /\ rodadas' = rodadas (+) SetToBag({Criada})
    /\ faltam' = SCHEDULE_INTERVAL_MINUTES
    /\ desde' = 0
    /\ inicio' = SemInicio
    /\ UNCHANGED <<ENVIADOS_CACHE, principal, hora, enviados, resp, busca>>

\* One minute passes.  The loop polls every second, so no minute passes
\* over a due job, nor over a task that is ready to start.
Tick ==
    /\ ~(principal = "loop" /\ Pendente)
    /\ ~BagIn(Criada, rodadas)
    /\ faltam' = IF faltam > 0 THEN faltam - 1 ELSE 0
    /\ desde' = IF desde < SCHEDULE_INTERVAL_MINUTES THEN desde + 1 ELSE desde
    /\ hora' \in {hora, ProximaHora(hora)}
    /\ inicio' = SemInicio
    /\ UNCHANGED <<ENVIADOS_CACHE, principal, rodadas, enviados, resp, busca>>

\* -------------------------------------------------------- specifications
\* The state once the module is loaded and loop_principal has registered the
\* job: the first round is about to run.
InitRodadas ==
    /\ principal = "primeira"
    /\ rodadas = SetToBag({Criada})
    /\ faltam = SCHEDULE_INTERVAL_MINUTES
    /\ enviados = {}
    /\ desde = 0
    /\ inicio = SemInicio

Init ==
    /\ InitRodadas
    /\ hora \in Horas
    /\ ENVIADOS_CACHE = {}
    /\ resp = [f \in Fontes |-> [status |-> "ok", ofertas |-> <<>>]]
    /\ busca = NenhumaBusca

Next ==
    \/ \E x \in Existentes : IniciarRodada(x)
    \/ \E x \in Existentes : EnvioOk(x)
    \/ \E x \in Existentes : EnvioFalha(x)
    \/ \E x \in Existentes : EnvioFallback(x)
    \/ \E x \in Existentes : FimDaPausa(x)
    \/ Agendar
    \/ Tick

Spec == Init /\ [][Next]_vars

\* The event loop runs every coroutine that is ready, every await on the
\* network returns (python-telegram-bot's requests time out) and every
\* asyncio.sleep ends; time passes.
Justica ==
    /\ WF_vars(Tick)
    /\ WF_vars(Agendar)
    /\ WF_vars(\E x \in Existentes : IniciarRodada(x))
    /\ WF_vars(\E x \in Existentes : EnvioOk(x) \/ EnvioFalha(x))
    /\ WF_vars(\E x \in Existentes : FimDaPausa(x))

FairSpec == Spec /\ Justica

\* buscar_produtos alone: any cache the program can hold, any answers of the
\* sources, one call (made, as the rounds make it, inside the sending hours).
InitBusca ==
    /\ InitRodadas
    /\ hora = HORARIO_INICIO_ENVIO
    /\ ENVIADOS_CACHE \in {c \in SUBSET Links : Cardinality(c) <= MAX_CACHE_SIZE}
    /\ resp \in [Fontes -> Respostas]
    /\ busca = NenhumaBusca

Buscar ==
    /\ busca.acessadas = {}
    /\ busca' = BuscarProdutos(resp, ENVIADOS_CACHE)
    /\ ENVIADOS_CACHE' = busca'.cache
    /\ UNCHANGED <<principal, rodadas, faltam, hora, enviados, desde, inicio, resp>>

NextBusca == Buscar

SpecBusca == InitBusca /\ [][NextBusca]_vars

\* ----------------------------------------------------------------- claims
\* Every step moves one round: x is the round as it was, y as it is now.
Saiu(x) == CopiesIn(x, rodadas) > CopiesIn(x, rodadas')

Surgiu(y) == CopiesIn(y, rodadas') > CopiesIn(y, rodadas)

\* A round calls enviar_produto_telegram for the head of y.fila in this step.
IniciaEnvio(y) == Surgiu(y) /\ y.pc = "enviando"

\* enviar_produto_telegram returns to round x, which goes on as y.
TerminaEnvio(x, y) ==
    /\ Saiu(x)
    /\ x.pc \in {"enviando", "fallback"}
    /\ Surgiu(y)
    /\ y.pc = "pausa"

\* The rounds in progress: started, and suspended in a send or in a pause.
NumEmAndamento(b) ==
    BagCardinality([x \in {z \in BagToSet(b) : EmAndamento(z)} |-> b[x]])

\* C1: each affiliate link is sent successfully at most once: no send
\* succeeds for a link that an earlier send already delivered.
C1_NuncaReenvia ==
    [][\A x \in Existentes : \A y \in BagToSet(rodadas') :
          (TerminaEnvio(x, y) /\ y.espera = 3) => Head(x.fila) \notin enviados]_vars

\* C2: at every await and at the end of every round ENVIADOS_CACHE holds at
\* most MAX_CACHE_SIZE links.
C2_CacheLimitado == Cardinality(ENVIADOS_CACHE) <= MAX_CACHE_SIZE

\* C2's case: the cache is full and a link sent earlier was dropped from it.
C2_Witness ==
    /\ Cardinality(ENVIADOS_CACHE) = MAX_CACHE_SIZE
    /\ \E l \in enviados : l \notin ENVIADOS_CACHE

\* C3: every product send attempt is followed by a pause of 3 s (success) or
\* 5 s (failure) that ends before the next product send attempt begins.  A
\* round in progress has made a send attempt whose pause has not ended, so
\* the round that begins a send attempt must be the only one in progress.
C3_EnviosEspacados ==
    [][/\ (\E y \in BagToSet(rodadas') : IniciaEnvio(y)) =>
             NumEmAndamento(rodadas') = 1
       /\ \A x \in Existentes : \A y \in BagToSet(rodadas') :
             TerminaEnvio(x, y) => y.espera \in {3, 5}]_vars

\* C4: at any time at most one execution of verificar_e_enviar_ofertas is
\* in progress (suspended in a send or in a pause).
C4_UmaRodadaPorVez == NumEmAndamento(rodadas) <= 1

\* The loop's scheduler launches a round in this step.
Lanca == Surgiu(Criada)

\* C5: the first round runs to completion before the scheduling loop is
\* entered; the loop launches a round only when SCHEDULE_INTERVAL_MINUTES
\* minutes have passed since the last launch, lets no further minute pass
\* once they have, never ends, and launches rounds again and again forever.
C5_RodadasNoIntervalo ==
    /\ [](principal = "primeira" => BagCardinality(rodadas) = 1)
    /\ [][/\ (principal = "primeira" /\ principal' # "primeira") =>
                (principal' = "loop" /\ rodadas' = EmptyBag)
          /\ principal = "loop" => principal' = "loop"
          /\ Lanca => (principal = "loop" /\ desde >= SCHEDULE_INTERVAL_MINUTES)
          /\ (principal = "loop" /\ desde' > desde) =>
                desde < SCHEDULE_INTERVAL_MINUTES]_vars
    /\ []<>BagIn(Criada, rodadas)

\* C5's case: the loop has just launched a scheduled round.
C5_Witness ==
    /\ principal = "loop"
    /\ desde = 0
    /\ BagIn(Criada, rodadas)

\* C6: every Telegram send attempt (send_photo, send_message, the fallback
\* send_message) begins at an hour h with
\* HORARIO_INICIO_ENVIO <= h < HORARIO_FIM_ENVIO.
C6_EnviaSoNoHorario ==
    [][(\E y \in BagToSet(rodadas') : Surgiu(y) /\ y.pc \in {"enviando", "fallback"})
          => (HORARIO_INICIO_ENVIO <= hora' /\ hora' < HORARIO_FIM_ENVIO)]_vars

\* C7: a round that starts at an hour outside
\* [HORARIO_INICIO_ENVIO, HORARIO_FIM_ENVIO) returns at once: no source is
\* fetched, nothing is sent and ENVIADOS_CACHE is unchanged.
C7_ForaDoHorarioNadaFaz ==
    [][(/\ Saiu(Criada)
        /\ ~(HORARIO_INICIO_ENVIO <= hora /\ hora < HORARIO_FIM_ENVIO)) =>
          /\ rodadas' = rodadas (-) SetToBag({Criada})
          /\ inicio'.acessadas = {}
          /\ enviados' = enviados
          /\ ENVIADOS_CACHE' = ENVIADOS_CACHE]_vars

\* C7's case: the last step was a round start outside the sending hours,
\* made when the cache held a link.
C7_Witness == inicio.fim = "fora" /\ ENVIADOS_CACHE # {}

\* C8: every link in ENVIADOS_CACHE was sent successfully earlier, and a
\* send that fails leaves the cache (and the record of sent links) as it
\* was, so the link can still be fetched and sent in a later round.
C8_SoGuardaEnviados ==
    /\ [](ENVIADOS_CACHE \subseteq enviados)
    /\ [][\A x \in Existentes : \A y \in BagToSet(rodadas') :
             (TerminaEnvio(x, y) /\ y.espera = 5) =>
                (ENVIADOS_CACHE' = ENVIADOS_CACHE /\ enviados' = enviados)]_vars

\* C8's case: a send failed for a link never sent, while the cache holds
\* another link.
C8_Witness ==
    \E x \in Existentes :
        /\ x.pc = "pausa"
        /\ x.espera = 5
        /\ Head(x.fila) \notin enviados
        /\ ENVIADOS_CACHE # {}

\* C9: when verificar_e_enviar_ofertas calls enviar_produto_telegram for a
\* product, the product's link is not in ENVIADOS_CACHE.
C9_ForaDoCacheAoEnviar ==
    [][\A y \in BagToSet(rodadas') :
          IniciaEnvio(y) => Head(y.fila) \notin ENVIADOS_CACHE']_vars

\* The offers of the sources that answered, in URLS_FONTE's order, without
\* the links of the cache.
OfertasEsperadas ==
    LET Pagina(f) == IF resp[f].status = "ok" THEN resp[f].ofertas ELSE <<>>
        Novo(l) == l \notin ENVIADOS_CACHE
        RECURSIVE Todas(_)
        Todas(f) == IF f > Len(URLS_FONTE) THEN <<>> ELSE Pagina(f) \o Todas(f + 1)
    IN SelectSeq(Todas(1), Novo)

\* C10: whatever sources fail (timeout, HTTP error, exception while
\* parsing), buscar_produtos fetches every source, returns the offers of the
\* sources that answered, lets no exception escape and leaves ENVIADOS_CACHE
\* as it was.
C10_BuscaToleraFalhas ==
    /\ [](busca.acessadas # {} =>
            /\ busca.acessadas = Fontes
            /\ ~busca.escapou
            /\ busca.produtos = OfertasEsperadas)
    /\ [][ENVIADOS_CACHE' = ENVIADOS_CACHE]_vars

\* C10's case: the first source failed while parsing, the second answered,
\* and its offers were returned.
C10_Witness ==
    /\ busca.acessadas # {}
    /\ resp[1].status = "excecao"
    /\ resp[2].status = "ok"
    /\ busca.produtos # <<>>

====
